---------------------------- MODULE Spec2Model ----------------------------
(***************************************************************************)
(* B-Format (ambisonic) decoder of alc/bformatdec.cpp: the two             *)
(* constructors of BFormatDec, BFormatDec::process and the static          *)
(* BFormatDec::GetHFOrderScales.                                           *)
(*                                                                         *)
(* Floats are modelled as exact rationals <<num, den>> in lowest terms     *)
(* with den > 0; a zero denominator stands for the IEEE results of a       *)
(* division by zero (<<1,0>> = +inf, <<-1,0>> = -inf, <<0,0>> = NaN).      *)
(* Rounding is not modelled.                                               *)
(***************************************************************************)
EXTENDS Integers, Sequences, FiniteSets, TLC

(***************************************************************************)
(* Bounds of the model.                                                    *)
(***************************************************************************)
\* most speakers a decoder configuration / entries a Contract B map holds
MaxSpeakers == 2
\* channel-map entries are drawn from 0 .. MaxChanIdx
MaxChanIdx == 2
\* input channel counts are drawn from 1 .. MaxInChans
MaxInChans == 2
\* number of output buffers handed to process is drawn from 1 .. MaxOut
MaxOut == 2
\* SamplesToDo is drawn from 1 .. MaxSamples
MaxSamples == 2
\* process calls on the same output buffers without the caller refilling them
MaxCalls == 2
\* out_order arguments of GetHFOrderScales are drawn up to MaxOrderArg
MaxOrderArg == 4

(***************************************************************************)
(* Program constants (headers of the repository).                          *)
(***************************************************************************)
MAX_AMBI_ORDER == 3
MAX_AMBI_CHANNELS == (MAX_AMBI_ORDER + 1) * (MAX_AMBI_ORDER + 1)
MAX_AMBI2D_CHANNELS == MAX_AMBI_ORDER * 2 + 1
MAX_OUTPUT_CHANNELS == 16
\* ACNs with height content: the bits of AMBI_PERIPHONIC_MASK (0xfe7ce4)
\* that lie below MAX_AMBI_CHANNELS
AMBI_PERIPHONIC_ACNS == {2, 5, 6, 7, 10, 11, 12, 13, 14}
\* AmbiIndex::From2D
From2D == <<0, 1, 3, 4, 8, 9, 15>>
\* AmbiIndex::OrderFromChannel
OrderFromChannel == <<0, 1, 1, 1, 2, 2, 2, 2, 2, 3, 3, 3, 3, 3, 3, 3>>
\* a FloatBufferLine is longer than any SamplesToDo (BUFFERSIZE)
BufLen == MaxSamples + 1

AmbiChans == 0 .. (MAX_AMBI_CHANNELS - 1)
OutChans == 0 .. (MAX_OUTPUT_CHANNELS - 1)
Orders == 0 .. MAX_AMBI_ORDER

(***************************************************************************)
(* Float arithmetic on rationals.                                          *)
(***************************************************************************)
Abs(x) == IF x < 0 THEN -x ELSE x

Sign(x) == IF x < 0 THEN -1 ELSE IF x > 0 THEN 1 ELSE 0

RECURSIVE GCD(_, _)
GCD(a, b) == IF b = 0 THEN a ELSE GCD(b, a % b)

Norm(n, d) ==
    IF d = 0 THEN <<Sign(n), 0>>
    ELSE LET g == GCD(Abs(n), Abs(d))
         IN  IF d < 0 THEN <<(-n) \div g, (-d) \div g>> ELSE <<n \div g, d \div g>>

F(n) == <<n, 1>>
Zero == F(0)
One == F(1)

FAdd(a, b) == Norm(a[1] * b[2] + b[1] * a[2], a[2] * b[2])
FSub(a, b) == Norm(a[1] * b[2] - b[1] * a[2], a[2] * b[2])
FMul(a, b) == Norm(a[1] * b[1], a[2] * b[2])
FDiv(a, b) == Norm(a[1] * b[2], a[2] * b[1])

\* std::pow(10.0f, e) for an integer exponent e
RECURSIVE Pow10(_)
Pow10(e) ==
    IF e = 0 THEN One
    ELSE IF e > 0 THEN FMul(F(10), Pow10(e - 1))
    ELSE FDiv(Pow10(e + 1), F(10))

(***************************************************************************)
(* Unsigned bit operations.                                                *)
(***************************************************************************)
RECURSIVE Pow2(_)
Pow2(k) == IF k = 0 THEN 1 ELSE 2 * Pow2(k - 1)

\* mask & (1u << k)
Bit(mask, k) == (mask \div Pow2(k)) % 2 = 1

\* the bits set in a mask, below MAX_OUTPUT_CHANNELS
BitsOf(mask) == {k \in OutChans : Bit(mask, k)}

ZeroRow == [c \in AmbiChans |-> Zero]
ZeroLine == [n \in 0 .. (BufLen - 1) |-> Zero]


(***************************************************************************)
(* State.                                                                  *)
(***************************************************************************)
VARIABLES
    pc,            \* "none" before construction, "ready" after
    args,          \* the arguments the constructor was called with
    built,         \* the members as the constructor left them
    mDualBand,     \* BFormatDec::mDualBand
    mNumChannels,  \* BFormatDec::mNumChannels
    mEnabled,      \* BFormatDec::mEnabled, an unsigned bit mask
    mMatrix,       \* BFormatDec::mMatrix, the union's Single and Dual views
    mXOver,        \* BFormatDec::mXOver, one band splitter per ambisonic channel
    mSamples,      \* BFormatDec::mSamples, the scratch buffer lines
    mSamplesHF,    \* BFormatDec::mSamplesHF, an index into mSamples or "nullptr"
    mSamplesLF,    \* BFormatDec::mSamplesLF, an index into mSamples or "nullptr"
    OutBuffer,     \* the caller's output buffer lines
    InSamples,     \* the caller's input buffer lines, one per ambisonic channel
    call,          \* the last process call: its SamplesToDo, the output buffers
                   \* before it and before the call preceding it, the order of
                   \* the filter and mixer calls it made
    calls,         \* process calls since the caller last filled the buffers
    ret            \* the value returned by the last call, when it returned one

vars == <<pc, args, built, mDualBand, mNumChannels, mEnabled, mMatrix, mXOver, mSamples,
          mSamplesHF, mSamplesLF, OutBuffer, InSamples, call, calls, ret>>

decoder == <<mDualBand, mNumChannels, mEnabled, mMatrix, mXOver, mSamples,
             mSamplesHF, mSamplesLF>>
buffers == <<OutBuffer, InSamples, call, calls>>

(***************************************************************************)
(* AmbDecConf, as far as the constructor reads it.                         *)
(***************************************************************************)
\* AmbiScale::FromN3D, FromSN3D and FromFuMa: fixed nonzero per-ACN divisors.
\* The SN3D and FuMa tables hold irrational values; rational stand-ins that
\* depend on the ACN in the same way (by order, by channel) take their place.
FromN3D == [acn \in AmbiChans |-> One]
FromSN3D == [acn \in AmbiChans |-> F(2 * OrderFromChannel[acn + 1] + 1)]
FromFuMa == [acn \in AmbiChans |-> F(acn + 2)]

GetAmbiScales(scaletype) ==
    IF scaletype = "FuMa" THEN FromFuMa
    ELSE IF scaletype = "SN3D" THEN FromSN3D
    ELSE FromN3D

\* raw decoder coefficients of speaker i: distinct and nonzero in every slot
RawHF(i) == [k \in AmbiChans |-> F(16 * i + k + 1)]
RawLF(i) == [k \in AmbiChans |-> F(16 * i + k + 2)]

Profiles ==
    { [ChanMask |-> 11, CoeffScale |-> "N3D", FreqBands |-> 1, XOverRatio |-> 0,
       HFOrderGain |-> <<One, One, One, One>>,
       LFOrderGain |-> <<One, One, One, One>>],
      [ChanMask |-> 13, CoeffScale |-> "SN3D", FreqBands |-> 2, XOverRatio |-> 40,
       HFOrderGain |-> <<F(2), F(3), One, One>>,
       LFOrderGain |-> <<One, F(5), One, One>>],
      [ChanMask |-> 25, CoeffScale |-> "FuMa", FreqBands |-> 2, XOverRatio |-> -40,
       HFOrderGain |-> <<One, F(2), F(3), One>>,
       LFOrderGain |-> <<F(7), One, F(5), One>>],
      [ChanMask |-> 33563, CoeffScale |-> "SN3D", FreqBands |-> 1, XOverRatio |-> 0,
       HFOrderGain |-> <<F(3), F(2), F(5), F(7)>>,
       LFOrderGain |-> <<One, One, One, One>>] }

\* a configuration with n speakers
MakeConf(p, n) ==
    [Speakers |-> n, ChanMask |-> p.ChanMask, CoeffScale |-> p.CoeffScale,
     FreqBands |-> p.FreqBands, XOverFreq |-> 400, XOverRatio |-> p.XOverRatio,
     HFOrderGain |-> p.HFOrderGain, LFOrderGain |-> p.LFOrderGain,
     HFMatrix |-> [i \in 0 .. (n - 1) |-> RawHF(i)],
     LFMatrix |-> [i \in 0 .. (n - 1) |-> RawLF(i)]]

Confs == {MakeConf(p, n) : p \in Profiles, n \in 1 .. MaxSpeakers}

\* the chanmap array of Contract A: the entries of the configured speakers,
\* then the entries the caller left behind them
ChanMapsA(n) ==
    {[i \in OutChans |-> IF i < n THEN m[i + 1] ELSE t] :
        m \in [1 .. n -> 0 .. MaxChanIdx], t \in 0 .. MaxChanIdx}

\* the chanmap span of Contract B
ChanMapsB == UNION {[0 .. (n - 1) -> 0 .. MaxChanIdx] : n \in 0 .. MaxSpeakers}

\* coefficient tables of Contract B
ChanCoeffs ==
    { [r \in OutChans |-> [c \in AmbiChans |-> F(16 * r + c + 1)]],
      [r \in OutChans |-> [c \in AmbiChans |-> IF c = r THEN One ELSE Zero]] }


(***************************************************************************)
(* The crossover filter (filters/splitter.h), an opaque stateful component:*)
(* init sets its coefficient and clears its history; process splits a      *)
(* block into a high and a low band and carries its history to the next    *)
(* block.  A two-tap split stands in for the filter design.                *)
(***************************************************************************)
DefaultSplitter == [coeff |-> Zero, z |-> Zero]

BandSplitterInit(f0norm) == [coeff |-> f0norm, z |-> Zero]

RECURSIVE BandSplitterProcess(_, _, _, _, _, _)
BandSplitterProcess(filt, input, count, hpout, lpout, n) ==
    IF n >= count THEN [filt |-> filt, hp |-> hpout, lp |-> lpout]
    ELSE LET lp == FDiv(FAdd(input[n], filt.z), F(2))
         IN  BandSplitterProcess([filt EXCEPT !.z = input[n]], input, count,
                                 [hpout EXCEPT ![n] = FSub(input[n], lp)],
                                 [lpout EXCEPT ![n] = lp], n + 1)

(***************************************************************************)
(* The weighted-sum mixer MixRowSamples (mixer/): accumulates              *)
(* sum over c of Gains[c] * InSamples[c][n] into OutBuffer[n], for every n *)
(* of the output span.                                                     *)
(***************************************************************************)
RECURSIVE RowSum(_, _, _, _, _)
RowSum(Gains, numGains, src, n, c) ==
    IF c >= numGains THEN Zero
    ELSE FAdd(FMul(Gains[c], src[c][n]), RowSum(Gains, numGains, src, n, c + 1))

MixRowSamples(outbuf, count, Gains, numGains, src) ==
    [n \in DOMAIN outbuf |->
        IF n < count THEN FAdd(outbuf[n], RowSum(Gains, numGains, src, n, 0))
        ELSE outbuf[n]]

(***************************************************************************)
(* BFormatDec::BFormatDec(conf, allow_2band, inchans, srate, chanmap)      *)
(***************************************************************************)
IsDualBandAllowOnly(allow_2band, conf) == allow_2band

IsDualBand(allow_2band, conf) == allow_2band /\ (conf.FreqBands = 2)

MaskAdd(mask, chan) == mask + Pow2(chan)

\* mask | (1 << chan)
MaskOr(mask, chan) == IF Bit(mask, chan) THEN mask ELSE mask + Pow2(chan)

\* std::accumulate over chanmap[first, last)
RECURSIVE Accumulate(_, _, _, _)
Accumulate(chanmap, first, last, mask) ==
    IF first >= last THEN mask
    ELSE Accumulate(chanmap, first + 1, last, MaskOr(mask, chanmap[first]))

Periphonic(conf) == \E acn \in AMBI_PERIPHONIC_ACNS : Bit(conf.ChanMask, acn)

CoeffCount(conf) == IF Periphonic(conf) THEN MAX_AMBI_CHANNELS ELSE MAX_AMBI2D_CHANNELS

Acn(conf, j) == IF Periphonic(conf) THEN j ELSE From2D[j + 1]

\* 10^(XOverRatio / 40); the configurations hold multiples of 40 dB
Ratio(conf) == Pow10(conf.XOverRatio \div 40)

RawIndexAsPosition(j, k) == j

\* the raw coefficient read at position j, with k coefficients read before
RawIndex(j, k) == k

HFCoeff(conf, i, j, k) ==
    LET acn == Acn(conf, j)
    IN  FMul(FDiv(conf.HFMatrix[i][RawIndex(j, k)], GetAmbiScales(conf.CoeffScale)[acn]),
             conf.HFOrderGain[OrderFromChannel[acn + 1] + 1])

LFCoeff(conf, i, j, k) ==
    LET acn == Acn(conf, j)
    IN  FMul(FDiv(conf.LFMatrix[i][RawIndex(j, k)], GetAmbiScales(conf.CoeffScale)[acn]),
             conf.LFOrderGain[OrderFromChannel[acn + 1] + 1])

RECURSIVE CoeffLoopSingle(_, _, _, _, _)
CoeffLoopSingle(conf, i, mtx, j, k) ==
    IF j >= CoeffCount(conf) THEN mtx
    ELSE IF ~Bit(conf.ChanMask, Acn(conf, j)) THEN CoeffLoopSingle(conf, i, mtx, j + 1, k)
    ELSE CoeffLoopSingle(conf, i, [mtx EXCEPT ![j] = HFCoeff(conf, i, j, k)], j + 1, k + 1)

RECURSIVE CoeffLoopDual(_, _, _, _, _)
CoeffLoopDual(conf, i, mtx, j, k) ==
    IF j >= CoeffCount(conf) THEN mtx
    ELSE IF ~Bit(conf.ChanMask, Acn(conf, j)) THEN CoeffLoopDual(conf, i, mtx, j + 1, k)
    ELSE CoeffLoopDual(conf, i,
             [mtx EXCEPT !.HF[j] = FMul(HFCoeff(conf, i, j, k), Ratio(conf)),
                         !.LF[j] = FDiv(LFCoeff(conf, i, j, k), Ratio(conf))],
             j + 1, k + 1)

RECURSIVE SpeakerLoopSingle(_, _, _, _)
SpeakerLoopSingle(conf, chanmap, Single, i) ==
    IF i >= conf.Speakers THEN Single
    ELSE SpeakerLoopSingle(conf, chanmap,
             [Single EXCEPT ![chanmap[i]] = CoeffLoopSingle(conf, i, @, 0, 0)], i + 1)

RECURSIVE SpeakerLoopDual(_, _, _, _)
SpeakerLoopDual(conf, chanmap, Dual, i) ==
    IF i >= conf.Speakers THEN Dual
    ELSE SpeakerLoopDual(conf, chanmap,
             [Dual EXCEPT ![chanmap[i]] = CoeffLoopDual(conf, i, @, 0, 0)], i + 1)

\* mMatrix{}: every coefficient of the union starts at zero.  A decoder reads
\* and writes one view of the union only, Single or Dual by its mode, so the
\* two views are kept as two fields.
ZeroMatrix ==
    [Single |-> [o \in OutChans |-> ZeroRow],
     Dual |-> [o \in OutChans |-> [HF |-> ZeroRow, LF |-> ZeroRow]]]

\* the members at the end of the configuration constructor
BFormatDecConf(conf, allow_2band, inchans, srate, chanmap) ==
    LET dual == IsDualBand(allow_2band, conf)
    IN  [mDualBand |-> dual,
         mSamples |-> [b \in 0 .. (IF dual THEN inchans * 2 ELSE 2) - 1 |-> ZeroLine],
         mSamplesHF |-> IF dual THEN 0 ELSE "nullptr",
         mSamplesLF |-> IF dual THEN inchans ELSE "nullptr",
         mNumChannels |-> inchans,
         mEnabled |-> Accumulate(chanmap, 0, conf.Speakers, 0),
         mMatrix |-> IF dual
                     THEN [ZeroMatrix EXCEPT
                              !.Dual = SpeakerLoopDual(conf, chanmap, @, 0)]
                     ELSE [ZeroMatrix EXCEPT
                              !.Single = SpeakerLoopSingle(conf, chanmap, @, 0)],
         mXOver |-> IF dual
                    THEN [c \in AmbiChans |->
                            BandSplitterInit(FDiv(F(conf.XOverFreq), F(srate)))]
                    ELSE [c \in AmbiChans |-> DefaultSplitter]]

(***************************************************************************)
(* BFormatDec::BFormatDec(inchans, chancoeffs, chanmap)                    *)
(***************************************************************************)
CoeffRowByChannel(i, chanidx) == chanidx

\* incoeffs++: the i-th call of set_coeffs reads table row i
CoeffRow(i, chanidx) == i

\* std::copy_n(coeffs, inchans, mtx)
CopyN(coeffs, count, mtx) == [c \in DOMAIN mtx |-> IF c < count THEN coeffs[c] ELSE mtx[c]]

\* std::for_each(chanmap.begin(), chanmap.end(), set_coeffs)
RECURSIVE ForEachSetCoeffs(_, _, _, _, _)
ForEachSetCoeffs(inchans, chancoeffs, chanmap, Single, i) ==
    IF i \notin DOMAIN chanmap THEN Single
    ELSE ForEachSetCoeffs(inchans, chancoeffs, chanmap,
             [Single EXCEPT ![chanmap[i]] =
                 CopyN(chancoeffs[CoeffRow(i, chanmap[i])], inchans, @)], i + 1)

\* the members at the end of the coefficient-table constructor
BFormatDecTable(inchans, chancoeffs, chanmap) ==
    [mDualBand |-> FALSE,
     mSamples |-> [b \in 0 .. 1 |-> ZeroLine],
     mSamplesHF |-> "nullptr",
     mSamplesLF |-> "nullptr",
     mNumChannels |-> inchans,
     mEnabled |-> Accumulate(chanmap, 0, Cardinality(DOMAIN chanmap), 0),
     mMatrix |-> [ZeroMatrix EXCEPT
                     !.Single = ForEachSetCoeffs(inchans, chancoeffs, chanmap, @, 0)],
     mXOver |-> [c \in AmbiChans |-> DefaultSplitter]]


(***************************************************************************)
(* BFormatDec::process(OutBuffer, InSamples, SamplesToDo)                  *)
(***************************************************************************)
\* the decoder's members, as one record
This ==
    [mDualBand |-> mDualBand, mNumChannels |-> mNumChannels, mEnabled |-> mEnabled,
     mMatrix |-> mMatrix, mXOver |-> mXOver, mSamples |-> mSamples,
     mSamplesHF |-> mSamplesHF, mSamplesLF |-> mSamplesLF]

XOverIndexNext(i) == i + 1

\* input channel i goes through mXOver[i]
XOverIndex(i) == i

\* the first loop of the dual-band path: one filter call per input channel
RECURSIVE XOverLoop(_, _, _, _, _)
XOverLoop(st, d, In, SamplesToDo, i) ==
    IF i >= d.mNumChannels THEN st
    ELSE LET r == BandSplitterProcess(st.mXOver[XOverIndex(i)], In[i], SamplesToDo,
                                      st.mSamples[d.mSamplesHF + i],
                                      st.mSamples[d.mSamplesLF + i], 0)
         IN  XOverLoop([mXOver |-> [st.mXOver EXCEPT ![XOverIndex(i)] = r.filt],
                        mSamples |-> [st.mSamples EXCEPT ![d.mSamplesHF + i] = r.hp,
                                                         ![d.mSamplesLF + i] = r.lp],
                        log |-> Append(st.log, [op |-> "xover", filter |-> XOverIndex(i),
                                                 input |-> i])],
                       d, In, SamplesToDo, i + 1)

ChanEnabledAlways(enabled) == TRUE

\* enabled & 1
ChanEnabled(enabled) == enabled % 2 = 1

NextRowSame(row) == row

\* ++mixmtx
NextRow(row) == row + 1

FirstBandLow == "LF"

\* the band of the first MixRowSamples call of an enabled channel
FirstBand == "HF"

\* the band of the second MixRowSamples call of an enabled channel
SecondBand == "LF"

\* mSamplesHF->data() or mSamplesLF->data(): the inchans lines from there on
BandSamples(d, samples, band) ==
    LET base == IF band = "HF" THEN d.mSamplesHF ELSE d.mSamplesLF
    IN  [c \in 0 .. (d.mNumChannels - 1) |-> samples[base + c]]

MixDual(d, samples, outbuf, SamplesToDo, row, band) ==
    MixRowSamples(outbuf, SamplesToDo, d.mMatrix.Dual[row][band], d.mNumChannels,
                  BandSamples(d, samples, band))

\* the second loop of the dual-band path, over the output buffers
RECURSIVE OutLoopDual(_, _, _, _, _, _)
OutLoopDual(st, d, samples, SamplesToDo, row, idx) ==
    IF idx \notin DOMAIN st.OutBuffer THEN st
    ELSE OutLoopDual(
             [OutBuffer |->
                 IF ChanEnabled(st.enabled)
                 THEN [st.OutBuffer EXCEPT ![idx] =
                         MixDual(d, samples,
                                 MixDual(d, samples, @, SamplesToDo, row, FirstBand),
                                 SamplesToDo, row, SecondBand)]
                 ELSE st.OutBuffer,
              log |->
                 IF ChanEnabled(st.enabled)
                 THEN st.log \o <<[op |-> "mix", out |-> idx, row |-> row,
                                  band |-> FirstBand, src |-> "mSamples"],
                                 [op |-> "mix", out |-> idx, row |-> row,
                                  band |-> SecondBand, src |-> "mSamples"]>>
                 ELSE st.log,
              enabled |-> st.enabled \div 2],
             d, samples, SamplesToDo, NextRow(row), idx + 1)

\* the loop of the single-band path, over the output buffers
RECURSIVE OutLoopSingle(_, _, _, _, _, _)
OutLoopSingle(st, d, In, SamplesToDo, row, idx) ==
    IF idx \notin DOMAIN st.OutBuffer THEN st
    ELSE OutLoopSingle(
             [OutBuffer |->
                 IF ChanEnabled(st.enabled)
                 THEN [st.OutBuffer EXCEPT ![idx] =
                         MixRowSamples(@, SamplesToDo, d.mMatrix.Single[row],
                                       d.mNumChannels, In)]
                 ELSE st.OutBuffer,
              log |->
                 IF ChanEnabled(st.enabled)
                 THEN Append(st.log, [op |-> "mix", out |-> idx, row |-> row,
                                      band |-> "single", src |-> "InSamples"])
                 ELSE st.log,
              enabled |-> st.enabled \div 2],
             d, In, SamplesToDo, NextRow(row), idx + 1)

MaskShifted(mask, enabled) == enabled

\* ALuint enabled{mEnabled}: the loops shift a copy, the member keeps its value
MaskAfterLoop(mask, enabled) == mask

\* the members and the output buffers at the end of process, and the calls made
BFormatDecProcess(d, Out, In, SamplesToDo) ==
    IF d.mDualBand
    THEN LET s1 == XOverLoop([mXOver |-> d.mXOver, mSamples |-> d.mSamples, log |-> <<>>],
                             d, In, SamplesToDo, 0)
             s2 == OutLoopDual([OutBuffer |-> Out, log |-> s1.log, enabled |-> d.mEnabled],
                               d, s1.mSamples, SamplesToDo, 0, 0)
         IN  [mXOver |-> s1.mXOver, mSamples |-> s1.mSamples,
              mEnabled |-> MaskAfterLoop(d.mEnabled, s2.enabled),
              OutBuffer |-> s2.OutBuffer, log |-> s2.log]
    ELSE LET s2 == OutLoopSingle([OutBuffer |-> Out, log |-> <<>>, enabled |-> d.mEnabled],
                                 d, In, SamplesToDo, 0, 0)
         IN  [mXOver |-> d.mXOver, mSamples |-> d.mSamples,
              mEnabled |-> MaskAfterLoop(d.mEnabled, s2.enabled),
              OutBuffer |-> s2.OutBuffer, log |-> s2.log]

(***************************************************************************)
(* GetDecoderHFScales and BFormatDec::GetHFOrderScales                     *)
(***************************************************************************)
\* std::array<float,MAX_AMBI_ORDER+1>: the initialisers, then zeros
ArrayOf(init) == [i \in Orders |-> IF i < Len(init) THEN init[i + 1] ELSE Zero]

Ambi3DDecoderHFScale == ArrayOf(<<One, One>>)
\* 7.45355990e-01f, to four digits
Ambi3DDecoderHFScale2O == ArrayOf(<<Norm(7454, 10000), One, One>>)
\* 5.89792205e-01f and 8.79693856e-01f, to four digits
Ambi3DDecoderHFScale3O == ArrayOf(<<Norm(5898, 10000), Norm(8797, 10000), One, One>>)

GetDecoderHFScales(order) ==
    IF order >= 3 THEN Ambi3DDecoderHFScale3O
    ELSE IF order = 2 THEN Ambi3DDecoderHFScale2O
    ELSE Ambi3DDecoderHFScale

ScaleCountShort(in_order) == in_order

\* the loop bound i < in_order+1
ScaleCount(in_order) == in_order + 1

GetHFOrderScales(in_order, out_order) ==
    [i \in Orders |->
        IF i < ScaleCount(in_order)
        THEN FDiv(GetDecoderHFScales(in_order)[i], GetDecoderHFScales(out_order)[i])
        ELSE Zero]


(***************************************************************************)
(* The state machine.                                                      *)
(***************************************************************************)
NoArgs == [kind |-> "none"]
NoCall == [SamplesToDo |-> 0, pre |-> <<>>, prevSamplesToDo |-> 0, prevPre |-> <<>>,
           log |-> <<>>]
NoRet == [kind |-> "none"]

Init ==
    /\ pc = "none"
    /\ args = NoArgs
    /\ built = NoArgs
    /\ mDualBand = FALSE
    /\ mNumChannels = 0
    /\ mEnabled = 0
    /\ mMatrix = ZeroMatrix
    /\ mXOver = [c \in AmbiChans |-> DefaultSplitter]
    /\ mSamples = <<>>
    /\ mSamplesHF = "nullptr"
    /\ mSamplesLF = "nullptr"
    /\ OutBuffer = <<>>
    /\ InSamples = <<>>
    /\ call = NoCall
    /\ calls = 0
    /\ ret = NoRet

SetMembers(d) ==
    /\ built' = d
    /\ mDualBand' = d.mDualBand
    /\ mNumChannels' = d.mNumChannels
    /\ mEnabled' = d.mEnabled
    /\ mMatrix' = d.mMatrix
    /\ mXOver' = d.mXOver
    /\ mSamples' = d.mSamples
    /\ mSamplesHF' = d.mSamplesHF
    /\ mSamplesLF' = d.mSamplesLF

\* new BFormatDec(conf, allow_2band, inchans, srate, chanmap), for a
\* configuration and channel map of cases
ConstructFromConf(cases, inchanset) ==
    /\ pc = "none"
    /\ \E case \in cases, allow_2band \in BOOLEAN, inchans \in inchanset :
         LET conf == case[1]
             chanmap == case[2]
         IN  /\ args' = [kind |-> "conf", conf |-> conf, allow_2band |-> allow_2band,
                         inchans |-> inchans, srate |-> 48000, chanmap |-> chanmap]
             /\ SetMembers(BFormatDecConf(conf, allow_2band, inchans, 48000, chanmap))
    /\ pc' = "ready"
    /\ UNCHANGED <<buffers, ret>>

\* new BFormatDec(inchans, chancoeffs, chanmap), for a table and channel map of cases
ConstructFromTable(cases, inchanset) ==
    /\ pc = "none"
    /\ \E case \in cases, inchans \in inchanset :
         LET chancoeffs == case[1]
             chanmap == case[2]
         IN  /\ args' = [kind |-> "table", inchans |-> inchans,
                         chancoeffs |-> chancoeffs, chanmap |-> chanmap]
             /\ SetMembers(BFormatDecTable(inchans, chancoeffs, chanmap))
    /\ pc' = "ready"
    /\ UNCHANGED <<buffers, ret>>

\* the input signals: a constant 1 on ambisonic channel 0, or a ramp on every channel
InputLine(sig, c) ==
    [n \in 0 .. (BufLen - 1) |->
        IF sig = "const" THEN (IF c = 0 THEN One ELSE Zero) ELSE F((c + 1) * (n + 1))]

\* the caller fills its buffers: numOut output lines, cleared or holding earlier
\* output, and one input line per ambisonic channel
FillBuffers ==
    /\ pc = "ready"
    /\ \E numOut \in 1 .. MaxOut, v \in {0, 1}, sig \in {"const", "ramp"} :
         /\ OutBuffer' = [o \in 0 .. (numOut - 1) |->
                            [n \in 0 .. (BufLen - 1) |-> F(v * (3 * o + n + 1))]]
         /\ InSamples' = [c \in 0 .. (mNumChannels - 1) |-> InputLine(sig, c)]
    /\ call' = NoCall
    /\ calls' = 0
    /\ UNCHANGED <<pc, args, built, decoder, ret>>

\* decoder->process(OutBuffer, InSamples, SamplesToDo)
Process ==
    /\ pc = "ready"
    /\ DOMAIN OutBuffer # {}
    /\ calls < MaxCalls
    /\ \E SamplesToDo \in 1 .. MaxSamples :
         LET r == BFormatDecProcess(This, OutBuffer, InSamples, SamplesToDo)
         IN  /\ mXOver' = r.mXOver
             /\ mSamples' = r.mSamples
             /\ mEnabled' = r.mEnabled
             /\ OutBuffer' = r.OutBuffer
             /\ call' = [SamplesToDo |-> SamplesToDo, pre |-> OutBuffer,
                         prevSamplesToDo |-> call.SamplesToDo, prevPre |-> call.pre,
                         log |-> r.log]
    /\ calls' = calls + 1
    /\ UNCHANGED <<pc, args, built, mDualBand, mNumChannels, mMatrix, mSamplesHF,
                   mSamplesLF, InSamples, ret>>

\* BFormatDec::GetHFOrderScales(in_order, out_order), with out_order >= in_order
CallGetHFOrderScales ==
    /\ \E in_order \in Orders, out_order \in 0 .. MaxOrderArg :
         /\ out_order >= in_order
         /\ ret' = [kind |-> "scales", in_order |-> in_order, out_order |-> out_order,
                    value |-> GetHFOrderScales(in_order, out_order)]
    /\ UNCHANGED <<pc, args, built, decoder, buffers>>

\* every configuration with every channel map
BuildCasesA == UNION {{<<conf, chanmap>> : chanmap \in ChanMapsA(conf.Speakers)} : conf \in Confs}
BuildCasesB == ChanCoeffs \X ChanMapsB

\* the decoders the block processor is driven with: MaxSpeakers speakers on
\* every other output channel, or on the first channels in reverse order
StrideMap == [i \in OutChans |-> IF i < MaxSpeakers THEN 2 * i ELSE 1]
ReverseMap == [i \in OutChans |-> IF i < MaxSpeakers THEN MaxSpeakers - 1 - i ELSE 0]
ProcessCasesA == {MakeConf(p, MaxSpeakers) : p \in Profiles} \X {StrideMap, ReverseMap}
ProcessCasesB ==
    ChanCoeffs \X {[i \in 0 .. (MaxSpeakers - 1) |-> StrideMap[i]],
                   [i \in 0 .. (MaxSpeakers - 1) |-> ReverseMap[i]]}

Next ==
    \/ ConstructFromConf(ProcessCasesA, {MaxInChans})
    \/ ConstructFromTable(ProcessCasesB, {MaxInChans})
    \/ FillBuffers
    \/ Process

\* construction, then blocks processed on buffers the caller fills
Spec == Init /\ [][Next]_vars

NextBuild ==
    \/ ConstructFromConf(BuildCasesA, 1 .. MaxInChans)
    \/ ConstructFromTable(BuildCasesB, 1 .. MaxInChans)

\* construction alone, over every configuration and channel map
SpecBuild == Init /\ [][NextBuild]_vars

NextScales ==
    \/ ConstructFromTable(BuildCasesB, 1 .. MaxInChans)
    \/ CallGetHFOrderScales

\* the order-scale calculator, called by the code that sets up a decoder
SpecScales == Init /\ [][NextScales]_vars


(***************************************************************************)
(* Properties.                                                             *)
(***************************************************************************)
Range(f) == {f[i] : i \in DOMAIN f}

\* the output channels process went over
OutIdx == DOMAIN OutBuffer

\* the samples the last process call covered
Done == 0 .. (call.SamplesToDo - 1)

\* the single-band mix of output channel o at sample n
SingleMix(o, n) == RowSum(mMatrix.Single[o], mNumChannels, InSamples, n, 0)

\* C1, as claimed: on a single-band decoder, after process every enabled output
\* channel holds output[n] = sum over c of matrixRow[c] * input[c][n] for n in
\* [0, SamplesToDo), whatever the buffer held before the call.
C1_Overwritten ==
    (pc = "ready" /\ ~mDualBand /\ calls > 0) =>
        \A o \in OutIdx : Bit(mEnabled, o) =>
            \A n \in Done : OutBuffer[o][n] = SingleMix(o, n)

\* C1, amended: on a single-band decoder, after process every enabled output
\* channel holds, for n in [0, SamplesToDo), the value it held before the call
\* plus sum over c of matrixRow[c] * input[c][n]: the mix is accumulated.
C1_Accumulated ==
    (pc = "ready" /\ ~mDualBand /\ calls > 0) =>
        \A o \in OutIdx : Bit(mEnabled, o) =>
            \A n \in Done : OutBuffer[o][n] = FAdd(call.pre[o][n], SingleMix(o, n))

C1_Witness ==
    /\ pc = "ready" /\ ~mDualBand /\ calls > 0
    /\ \E o \in OutIdx : /\ o > 0
                         /\ Bit(mEnabled, o)
                         /\ call.pre[o][0] # Zero
                         /\ SingleMix(o, 0) # Zero
                         /\ SingleMix(o, 0) # SingleMix(0, 0)

\* C2: in both modes a process call writes no sample of an output buffer whose
\* enabled-mask bit is clear: the buffer is as it was before the call and no
\* mixer call was made on it.
C2_DisabledUntouched ==
    (pc = "ready" /\ calls > 0) =>
        \A o \in OutIdx : ~Bit(mEnabled, o) =>
            /\ OutBuffer[o] = call.pre[o]
            /\ \A e \in Range(call.log) : e.op = "mix" => e.out # o

C2_Witness ==
    /\ pc = "ready" /\ calls > 0 /\ mDualBand
    /\ \E o \in OutIdx : ~Bit(mEnabled, o) /\ OutBuffer[o][0] # Zero
    /\ \E o \in OutIdx : Bit(mEnabled, o) /\ OutBuffer[o] # call.pre[o]

\* the channel map entries the constructor reads: those of the configured
\* speakers (Contract A), or the whole span (Contract B)
ReadEntries ==
    IF args.kind = "conf"
    THEN {args.chanmap[i] : i \in 0 .. (args.conf.Speakers - 1)}
    ELSE Range(args.chanmap)

\* C3, as claimed: after either constructor, bit k of the enabled mask is set iff
\* k appears anywhere in the channel map supplied, and popcount(mask) is at most
\* the number of distinct mapped indices.
C3_MaskOfWholeMap ==
    pc = "ready" =>
        /\ \A k \in OutChans : Bit(mEnabled, k) <=> k \in Range(args.chanmap)
        /\ Cardinality(BitsOf(mEnabled)) <= Cardinality(Range(args.chanmap))

\* C3, amended: bit k of the enabled mask is set iff k appears among the channel
\* map entries the constructor reads (the first Speakers.size() entries for
\* Contract A, the whole span for Contract B); no other bit is set, and
\* popcount(mask) is at most the number of distinct mapped indices.
C3_MaskOfReadEntries ==
    pc = "ready" =>
        /\ \A k \in OutChans : Bit(mEnabled, k) <=> k \in ReadEntries
        /\ mEnabled < Pow2(MAX_OUTPUT_CHANNELS)
        /\ Cardinality(BitsOf(mEnabled)) <= Cardinality(Range(args.chanmap))

C3_Witness ==
    /\ pc = "ready" /\ args.kind = "conf"
    /\ args.conf.Speakers >= 2
    /\ args.chanmap[0] = args.chanmap[1]
    /\ args.chanmap[args.conf.Speakers] \notin ReadEntries
    /\ Cardinality(BitsOf(mEnabled)) < Cardinality(Range(args.chanmap))

\* C4, as claimed: after Contract B construction, for every entry i of the
\* channel map the single-band row of output channel chanmap[i] equals table row
\* i on [0, inchans), also when an output index occurs more than once.
C4_EveryEntry ==
    (pc = "ready" /\ args.kind = "table") =>
        \A i \in DOMAIN args.chanmap : \A c \in 0 .. (args.inchans - 1) :
            mMatrix.Single[args.chanmap[i]][c] = args.chancoeffs[i][c]

\* entry i is the last of the map that names its output channel
LastOfChannel(i) == \A j \in DOMAIN args.chanmap : j > i => args.chanmap[j] # args.chanmap[i]

\* C4, amended: after Contract B construction, for every entry i of the channel
\* map that is the last entry naming its output index, the single-band row of
\* output channel chanmap[i] equals table row i on [0, inchans), verbatim; the
\* row of an index named more than once is the table row of its last entry.
C4_LastEntry ==
    (pc = "ready" /\ args.kind = "table") =>
        \A i \in DOMAIN args.chanmap : LastOfChannel(i) =>
            \A c \in 0 .. (args.inchans - 1) :
                mMatrix.Single[args.chanmap[i]][c] = args.chancoeffs[i][c]

C4_Witness ==
    /\ pc = "ready" /\ args.kind = "table"
    /\ args.inchans >= 2
    /\ \E i, j \in DOMAIN args.chanmap :
          /\ i < j /\ args.chanmap[i] = args.chanmap[j] /\ args.chanmap[j] > 0
          /\ LastOfChannel(j)
          /\ args.chancoeffs[i][0] # args.chancoeffs[j][0]

\* C5: for every order n in [0, MAX_AMBI_ORDER], GetHFOrderScales(n, n) is 1.0
\* at the indices 0..n, none of them a division by a zero curve value, and zero
\* at the indices above n.
C5_EqualOrders ==
    (ret.kind = "scales" /\ ret.in_order = ret.out_order) =>
        \A i \in Orders :
            IF i <= ret.in_order
            THEN ret.value[i] = One /\ GetDecoderHFScales(ret.out_order)[i] # Zero
            ELSE ret.value[i] = Zero

C5_Witness ==
    /\ ret.kind = "scales" /\ ret.in_order = 2 /\ ret.out_order = 2
    /\ GetDecoderHFScales(2)[0] # One
    /\ ret.value[2] = One

\* C6, as claimed: on a single-band decoder a second process call with the same
\* input buffers, output buffers and SamplesToDo, nothing touching the buffers
\* in between, leaves every output buffer as it was after the first call.
C6_SecondCallNoChange ==
    (pc = "ready" /\ ~mDualBand /\ calls >= 2
        /\ call.SamplesToDo = call.prevSamplesToDo) =>
        OutBuffer = call.pre

\* C6, amended: on a single-band decoder a second process call with the same
\* input buffers, output buffers and SamplesToDo, nothing touching the buffers
\* in between, changes every sample of every output buffer by exactly the amount
\* the first call changed it by: the same mix is accumulated a second time.
C6_SecondCallSameIncrement ==
    (pc = "ready" /\ ~mDualBand /\ calls >= 2
        /\ call.SamplesToDo = call.prevSamplesToDo) =>
        \A o \in OutIdx : \A n \in DOMAIN OutBuffer[o] :
            FSub(OutBuffer[o][n], call.pre[o][n])
                = FSub(call.pre[o][n], call.prevPre[o][n])

C6_Witness ==
    /\ pc = "ready" /\ ~mDualBand /\ calls >= 2
    /\ call.SamplesToDo = call.prevSamplesToDo
    /\ \E o \in OutIdx : /\ OutBuffer[o][0] # call.pre[o][0]
                         /\ call.prevPre[o][0] # Zero

\* C7: a decoder built from a configuration is dual-band iff allow_2band is true
\* and the configuration declares exactly two frequency bands; a single-band
\* decoder's process calls no crossover filter and reads no scratch buffer, so
\* that filters and scratch buffers stay as the constructor left them.
C7_DualBandIff ==
    (pc = "ready" /\ args.kind = "conf") =>
        /\ mDualBand <=> (args.allow_2band /\ args.conf.FreqBands = 2)
        /\ ~mDualBand =>
              /\ \A e \in Range(call.log) : e.op # "xover" /\ e.src = "InSamples"
              /\ mXOver = built.mXOver
              /\ mSamples = built.mSamples

C7_Witness ==
    /\ pc = "ready" /\ args.kind = "conf"
    /\ args.allow_2band /\ args.conf.FreqBands # 2
    /\ ~mDualBand /\ calls > 0
    /\ call.log # <<>>

\* the speakers of the configuration, the positions of the working
\* coefficient-index set and those whose ACN bit is in the channel mask
SpeakerIdx == 0 .. (args.conf.Speakers - 1)
Positions == 0 .. (CoeffCount(args.conf) - 1)
Present(j) == Bit(args.conf.ChanMask, Acn(args.conf, j))

\* the count of positions before j whose ACN bit is present
RawBefore(j) == Cardinality({p \in 0 .. (j - 1) : Present(p)})

\* raw coefficient RawBefore(j) of speaker i, divided by the normalization scale
\* of the ACN at position j and multiplied by the gain of that ACN's order
Derived(raw, gain, i, j) ==
    LET acn == Acn(args.conf, j)
    IN  FMul(FDiv(raw[i][RawBefore(j)], GetAmbiScales(args.conf.CoeffScale)[acn]),
             gain[OrderFromChannel[acn + 1] + 1])

\* the row of chanmap[i] holds, at every present position, the coefficient
\* derived from speaker i
RowDerivedFrom(i) ==
    \A j \in Positions : Present(j) =>
        IF mDualBand
        THEN /\ mMatrix.Dual[args.chanmap[i]].HF[j]
                  = FMul(Derived(args.conf.HFMatrix, args.conf.HFOrderGain, i, j),
                         Ratio(args.conf))
             /\ mMatrix.Dual[args.chanmap[i]].LF[j]
                  = FDiv(Derived(args.conf.LFMatrix, args.conf.LFOrderGain, i, j),
                         Ratio(args.conf))
        ELSE mMatrix.Single[args.chanmap[i]][j]
                  = Derived(args.conf.HFMatrix, args.conf.HFOrderGain, i, j)

\* the row of chanmap[i] is unwritten (still zero) at every absent position,
\* in the view of the matrix the decoder's mode uses
AbsentUnwritten(i) ==
    \A j \in Positions : ~Present(j) =>
        IF mDualBand
        THEN /\ mMatrix.Dual[args.chanmap[i]].HF[j] = Zero
             /\ mMatrix.Dual[args.chanmap[i]].LF[j] = Zero
        ELSE mMatrix.Single[args.chanmap[i]][j] = Zero

\* C8, as claimed: after Contract A construction, for every configured speaker i
\* and every position j whose ACN bit is present, the row of chanmap[i] at j is
\* derived from raw coefficient k of speaker i, k the count of present positions
\* before j; absent positions are not written.
C8_EverySpeaker ==
    (pc = "ready" /\ args.kind = "conf") =>
        \A i \in SpeakerIdx : RowDerivedFrom(i) /\ AbsentUnwritten(i)

\* speaker i is the last configured speaker mapped to its output channel
LastSpeakerOfChannel(i) == \A s \in SpeakerIdx : s > i => args.chanmap[s] # args.chanmap[i]

\* C8, amended: the row of chanmap[i] is derived in that way from speaker i for
\* every configured speaker i that is the last one mapped to its output channel
\* (a later speaker mapped to the same channel overwrites the row); absent
\* positions are not written for any speaker.
C8_LastSpeaker ==
    (pc = "ready" /\ args.kind = "conf") =>
        \A i \in SpeakerIdx :
            /\ LastSpeakerOfChannel(i) => RowDerivedFrom(i)
            /\ AbsentUnwritten(i)

C8_Witness ==
    /\ pc = "ready" /\ args.kind = "conf" /\ mDualBand
    /\ args.conf.Speakers >= 2
    /\ args.chanmap[0] = args.chanmap[1]
    /\ \E j \in Positions : Present(j) /\ RawBefore(j) < j
                            /\ mMatrix.Dual[args.chanmap[1]].HF[j] # Zero
    /\ \E j \in Positions : ~Present(j) /\ j < CoeffCount(args.conf) - 1

\* the positions of the log entries of a kind
XOverAt == {p \in DOMAIN call.log : call.log[p].op = "xover"}
MixAt == {p \in DOMAIN call.log : call.log[p].op = "mix"}
MixOf(o) == {p \in MixAt : call.log[p].out = o}

\* C9: in a dual-band process call each input channel c < inchans goes exactly
\* once through its own filter c, every filter call precedes every mixer call,
\* and each enabled output channel gets exactly two mixer calls on its buffer,
\* the high-band row over the high-band scratch first and the low-band row over
\* the low-band scratch second, in ascending output-channel order.
C9_DualBandOrder ==
    (pc = "ready" /\ mDualBand /\ calls > 0) =>
        /\ \A c \in 0 .. (mNumChannels - 1) :
              Cardinality({p \in XOverAt : call.log[p].input = c}) = 1
        /\ \A p \in XOverAt : /\ call.log[p].input < mNumChannels
                              /\ call.log[p].filter = call.log[p].input
        /\ \A p \in XOverAt, q \in MixAt : p < q
        /\ \A o \in OutIdx :
              IF Bit(mEnabled, o)
              THEN \E p \in MixOf(o) :
                      /\ MixOf(o) = {p, p + 1}
                      /\ call.log[p].band = "HF" /\ call.log[p + 1].band = "LF"
                      /\ call.log[p].row = o /\ call.log[p + 1].row = o
                      /\ call.log[p].src = "mSamples" /\ call.log[p + 1].src = "mSamples"
              ELSE MixOf(o) = {}
        /\ \A p, q \in MixAt : p < q => call.log[p].out <= call.log[q].out
        /\ \A p \in MixAt : call.log[p].out \in OutIdx
        /\ \A o \in OutIdx : Bit(mEnabled, o) => \A n \in Done :
              OutBuffer[o][n] =
                  FAdd(FAdd(call.pre[o][n],
                            RowSum(mMatrix.Dual[o].HF, mNumChannels,
                                   BandSamples(This, mSamples, "HF"), n, 0)),
                       RowSum(mMatrix.Dual[o].LF, mNumChannels,
                              BandSamples(This, mSamples, "LF"), n, 0))

C9_Witness ==
    /\ pc = "ready" /\ mDualBand /\ calls > 0
    /\ mNumChannels >= 2
    /\ Cardinality({o \in OutIdx : Bit(mEnabled, o)}) >= 2
    /\ Cardinality(XOverAt) >= 2 /\ Cardinality(MixAt) >= 4

\* what no process call changes
MembersKept ==
    /\ mMatrix = built.mMatrix
    /\ mEnabled = built.mEnabled
    /\ mDualBand = built.mDualBand
    /\ mNumChannels = built.mNumChannels
    /\ mSamplesHF = built.mSamplesHF
    /\ mSamplesLF = built.mSamplesLF

\* filters change only in dual-band mode and only for input channels c < inchans
FiltersKept ==
    /\ ~mDualBand => mXOver = built.mXOver
    /\ \A c \in AmbiChans : c >= mNumChannels => mXOver[c] = built.mXOver[c]

\* C10, as claimed: after any sequence of process calls the matrix, the mask,
\* the mode and the input channel count are as at the end of construction, and
\* the only decoder state a process call changes is crossover filter state, only
\* in dual-band mode and only for filters of input channels c < inchans.
C10_OnlyFilters ==
    pc = "ready" => MembersKept /\ FiltersKept /\ mSamples = built.mSamples

\* C10, amended: after any sequence of process calls the matrix, the mask, the
\* mode and the input channel count are as at the end of construction; the only
\* decoder state a process call changes is crossover filter state and the
\* high/low scratch band buffers the filters write, both only in dual-band mode
\* and the filters only for input channels c < inchans.
C10_FiltersAndScratch ==
    pc = "ready" =>
        /\ MembersKept
        /\ FiltersKept
        /\ ~mDualBand => mSamples = built.mSamples
        /\ DOMAIN mSamples = DOMAIN built.mSamples

C10_Witness ==
    /\ pc = "ready" /\ mDualBand /\ calls >= 2
    /\ \E c \in 0 .. (mNumChannels - 1) : mXOver[c] # built.mXOver[c]
    /\ mSamples # built.mSamples
    /\ mXOver[mNumChannels] = built.mXOver[mNumChannels]

=============================================================================
